---- MODULE Spec2Model ----
(***************************************************************************)
(* A model of codex-stats.py: discovery of log files, extraction of JSON   *)
(* records, interpretation of one record (timestamp, role, usage) and the  *)
(* per-day aggregation and report.                                         *)
(*                                                                         *)
(* A Python object that json.loads can produce is a tagged record:         *)
(*   [t |-> "null"], [t |-> "bool", b], [t |-> "int", n],                  *)
(*   [t |-> "float", h] (the float h/2), [t |-> "inf"] (float('inf'), the  *)
(*   JSON token Infinity), [t |-> "str", s] (s a tuple of characters),     *)
(*   [t |-> "list", e] (e a tuple of objects), [t |-> "dict", d] (d a      *)
(*   function from the keys present to objects).                           *)
(* An exception leaving a function is [t |-> "raise", exc].                *)
(***************************************************************************)
EXTENDS Integers, Sequences, FiniteSets, TLC

VARIABLES
  pc,          \* where main (or the function under test) stands
  cur,         \* rec: the record being interpreted
  out,         \* the value a function returned, or the exception that ended the run
  mtime,       \* st_mtime of the file being read
  fs,          \* the directory tree under --root
  args,        \* --since, --until and the local zone of the run
  candidates,  \* line 115
  files,       \* line 126
  fi,          \* index in files of the file being read (0: none yet)
  lines,       \* what iter_json_records has read of that file so far
  yielded,     \* the records it has yielded from that file so far
  pending,     \* .json: the records the generator has still to yield
  eof,         \* the generator read that file to its end
  reads,       \* lines and documents read in the whole run
  daily,       \* line 132
  rows,        \* line 166
  total,       \* line 167
  data,        \* line 175
  opened,      \* history: the paths line 146 has taken, in order
  log          \* history: for each record that reached line 149, the index of its file

pipeVars == <<fs, args, candidates, files, fi, lines, yielded, pending, eof, reads,
              daily, rows, total, data, opened, log>>
vars == <<pc, cur, out, mtime, pipeVars>>

\* The pipeline at rest, while one function is exercised on its own.
PipeIdle ==
  /\ fs = [exists |-> FALSE, mtime |-> [t |-> "int", n |-> 0], root |-> <<>>, subs |-> <<>>]
  /\ args = [since |-> [t |-> "null"], until |-> [t |-> "null"], tz |-> 0,
             since_date |-> [t |-> "null"], until_date |-> [t |-> "null"]]
  /\ candidates = <<>> /\ files = <<>> /\ fi = 0
  /\ lines = <<>> /\ yielded = <<>> /\ pending = <<>> /\ eof = FALSE /\ reads = 0
  /\ daily = <<>> /\ rows = <<>> /\ total = <<>> /\ data = <<>>
  /\ opened = <<>> /\ log = <<>>

----------------------------------------------------------------------------
\* Python objects

None == [t |-> "null"]
Bool(b) == [t |-> "bool", b |-> b]
IntV(n) == [t |-> "int", n |-> n]
Float(h) == [t |-> "float", h |-> h]
Inf == [t |-> "inf"]
Str(s) == [t |-> "str", s |-> s]
List(e) == [t |-> "list", e |-> e]
Dict(d) == [t |-> "dict", d |-> d]
Raise(e) == [t |-> "raise", exc |-> e]

\* A table entry standing for "the key is not in the dict"; never a value.
Absent == [t |-> "absent"]
Field(k, v) == IF v.t = "absent" THEN <<>> ELSE (k :> v)

S_user == <<"u","s","e","r">>
S_assistant == <<"a","s","s","i","s","t","a","n","t">>
S_completion == <<"c","o","m","p","l","e","t","i","o","n">>
S_system == <<"s","y","s","t","e","m">>
S_USER == <<"U","S","E","R","_","M","E","S","S","A","G","E">>
S_Assist == <<"A","s","s","i","s","t","a","n","t">>
S_tool == <<"t","o","o","l","_","c","a","l","l">>
S_num == <<"1","2">>
S_hi == <<"h","i">>
S_cmpl == <<"c","h","a","t",".","C","o","m","p","l","e","t","i","o","n">>

\* bool(v)
Truthy(v) ==
  CASE v.t = "null" -> FALSE
    [] v.t = "bool" -> v.b
    [] v.t = "int" -> v.n # 0
    [] v.t = "float" -> v.h # 0
    [] v.t = "inf" -> TRUE
    [] v.t = "str" -> Len(v.s) > 0
    [] v.t = "list" -> Len(v.e) > 0
    [] v.t = "dict" -> DOMAIN v.d # {}

\* a or b
Or(a, b) == IF Truthy(a) THEN a ELSE b

\* isinstance(v, (int, float)): bool is a subclass of int
IsNumber(v) == v.t \in {"bool", "int", "float", "inf"}

\* k in d, d.get(k) for a dict d
Has(v, k) == k \in DOMAIN v.d
Get(v, k) == IF k \in DOMAIN v.d THEN v.d[k] ELSE None

\* A finite number in halves
Halves(v) ==
  CASE v.t = "bool" -> IF v.b THEN 2 ELSE 0
    [] v.t = "int" -> 2 * v.n
    [] v.t = "float" -> v.h

\* int(x) of the float h/2: truncation toward zero
Trunc(h) == IF h >= 0 THEN h \div 2 ELSE -((-h) \div 2)

\* a + b
Add(a, b) ==
  IF IsNumber(a) /\ IsNumber(b)
  THEN IF a.t = "inf" \/ b.t = "inf" THEN Inf
       ELSE IF a.t = "float" \/ b.t = "float" THEN Float(Halves(a) + Halves(b))
       ELSE IntV((Halves(a) + Halves(b)) \div 2)
  ELSE IF a.t = "str" /\ b.t = "str" THEN Str(a.s \o b.s)
  ELSE IF a.t = "list" /\ b.t = "list" THEN List(a.e \o b.e)
  ELSE Raise("TypeError")

----------------------------------------------------------------------------
\* extract_usage

to_int(v) ==
  IF IsNumber(v)
  THEN CASE v.t = "bool" -> IntV(IF v.b THEN 1 ELSE 0)
         [] v.t = "int" -> IntV(v.n)
         [] v.t = "float" -> IntV(Trunc(v.h))
         [] v.t = "inf" -> Raise("OverflowError")
  ELSE IntV(0)

\* The tuple (a, b, c) of three to_int results, or the first exception raised
\* while evaluating them left to right.
Triple(a, b, c) ==
  IF a.t = "raise" THEN a
  ELSE IF b.t = "raise" THEN b
  ELSE IF c.t = "raise" THEN c
  ELSE [t |-> "triple", pt |-> a.n, ct |-> b.n, tt |-> c.n]

\* Line 89: rec.get("usage") or rec.get("meta", {}).get("usage")
UsageOf(rec) ==
  LET usage == Get(rec, "usage")
      meta == IF Has(rec, "meta") THEN rec.d["meta"] ELSE Dict(<<>>)
  IN IF Truthy(usage) THEN usage
     ELSE IF meta.t = "dict" THEN Get(meta, "usage")
     ELSE Raise("AttributeError")

\* Lines 91-94, for a dict u
UsageTriple(u) ==
  LET pt == Or(Or(Get(u, "prompt_tokens"), Get(u, "promptTokens")), IntV(0))
      ct == Or(Or(Get(u, "completion_tokens"), Get(u, "completionTokens")), IntV(0))
      tt == IF Truthy(Get(u, "total_tokens")) THEN Get(u, "total_tokens")
            ELSE IF Truthy(Get(u, "totalTokens")) THEN Get(u, "totalTokens")
            ELSE Add(Or(pt, IntV(0)), Or(ct, IntV(0)))
  IN IF tt.t = "raise" THEN tt ELSE Triple(to_int(pt), to_int(ct), to_int(tt))

RECURSIVE extract_usage(_)
extract_usage(rec) ==
  IF rec.t # "dict" THEN Raise("AttributeError")
  ELSE LET u == UsageOf(rec)
       IN IF u.t = "raise" THEN u
          ELSE IF u.t = "dict" THEN UsageTriple(u)
          ELSE IF Get(rec, "choices").t = "list" /\ Get(rec, "usage").t = "dict"
               THEN extract_usage(Dict("usage" :> Get(rec, "usage")))
          ELSE [t |-> "triple", pt |-> 0, ct |-> 0, tt |-> 0]

----------------------------------------------------------------------------
\* Inputs of extract_usage

MaxTok == 1

\* Values stored under a token key: not there, null, true, "12", Infinity,
\* [1], the integers -MaxTok..MaxTok and the floats k + 1/2 around them.
TokTable ==
  << Absent, None, Bool(TRUE), Str(S_num), Inf, List(<<IntV(1)>>) >>
  \o [i \in 1..(2 * MaxTok + 1) |-> IntV(i - MaxTok - 1)]
  \o [i \in 1..(2 * MaxTok + 2) |-> Float(2 * (i - MaxTok - 2) + 1)]

TotalTable == << Absent, IntV(0), IntV(9), Str(S_num) >>
AltPromptTable == << Absent, IntV(2) >>
AltCompletionTable == << Absent, Float(3) >>
AltTotalTable == << Absent, IntV(4) >>

UsageDict(p, c, tot, ap, ac, at) ==
  Dict(Field("prompt_tokens", TokTable[p]) @@ Field("completion_tokens", TokTable[c])
       @@ Field("total_tokens", TotalTable[tot]) @@ Field("promptTokens", AltPromptTable[ap])
       @@ Field("completionTokens", AltCompletionTable[ac])
       @@ Field("totalTokens", AltTotalTable[at]))

\* Where the usage mapping u sits in the record, and what surrounds it.
UsageRec(shape, u) ==
  CASE shape = 1 -> Dict("usage" :> u)
    [] shape = 2 -> Dict("meta" :> Dict("usage" :> u))
    [] shape = 3 -> Dict(("usage" :> u) @@ ("choices" :> List(<<>>)))
    [] shape = 4 -> Dict(("usage" :> None) @@ ("meta" :> Dict("usage" :> u)))
    [] shape = 5 -> Dict(("usage" :> Dict(<<>>)) @@ ("choices" :> List(<<>>))
                         @@ ("meta" :> Dict("usage" :> IntV(5))))
    [] shape = 6 -> Dict("meta" :> IntV(5))
    [] shape = 7 -> Dict(("usage" :> Str(S_num)) @@ ("meta" :> None))
    [] shape = 8 -> Dict("meta" :> None)
    [] shape = 9 -> Dict(<<>>)

UsageShapes == << "usage", "meta.usage", "usage+choices", "null usage+meta.usage",
                 "empty usage+choices", "meta 5", "str usage", "meta null", "empty" >>

InitUsage ==
  /\ pc = "call"
  /\ out = None
  /\ PipeIdle
  /\ mtime = IntV(0)
  /\ \E shape \in DOMAIN UsageShapes :
       \E p \in DOMAIN TokTable, c \in DOMAIN TokTable, tot \in DOMAIN TotalTable,
          ap \in DOMAIN AltPromptTable, ac \in DOMAIN AltCompletionTable,
          at \in DOMAIN AltTotalTable :
         /\ shape > 4 => (p = 1 /\ c = 1 /\ tot = 1 /\ ap = 1 /\ ac = 1 /\ at = 1)
         /\ cur = UsageRec(shape, UsageDict(p, c, tot, ap, ac, at))

CallExtractUsage ==
  /\ pc = "call"
  /\ out' = extract_usage(cur)
  /\ pc' = "ret"
  /\ UNCHANGED <<cur, mtime, pipeVars>>

SpecUsage == InitUsage /\ [][CallExtractUsage]_vars

LacksTotal(u) == ~Has(u, "total_tokens") /\ ~Has(u, "totalTokens")

\* C1: whenever the usage mapping of the record has neither total_tokens nor
\* totalTokens, the triple extract_usage returns has
\* total_tokens = prompt_tokens + completion_tokens.
C1_TotalFallback ==
  (pc = "ret" /\ out.t = "triple" /\ UsageOf(cur).t = "dict" /\ LacksTotal(UsageOf(cur)))
    => out.tt = out.pt + out.ct

----------------------------------------------------------------------------
\* classify_role

UpperChars == <<"A","B","C","D","E","F","G","H","I","J","K","L","M",
                "N","O","P","Q","R","S","T","U","V","W","X","Y","Z">>
LowerChars == <<"a","b","c","d","e","f","g","h","i","j","k","l","m",
                "n","o","p","q","r","s","t","u","v","w","x","y","z">>

\* s.lower()
Lower(s) ==
  [i \in 1..Len(s) |->
     IF \E j \in 1..26 : UpperChars[j] = s[i]
     THEN LowerChars[CHOOSE j \in 1..26 : UpperChars[j] = s[i]]
     ELSE s[i]]

\* sub in s
Contains(s, sub) ==
  \E i \in 1..(Len(s) - Len(sub) + 1) : SubSeq(s, i, i + Len(sub) - 1) = sub

S_unknown == <<"u","n","k","n","o","w","n">>

\* v in ("user", "assistant")
IsRole(v) == v.t = "str" /\ (v.s = S_user \/ v.s = S_assistant)

\* Lines 66-72: the role of the last message, or None
LastMessageRole(rec) ==
  LET msgs == Get(rec, "messages")
  IN IF Has(rec, "messages") /\ msgs.t = "list" /\ Len(msgs.e) > 0
     THEN LET last == msgs.e[Len(msgs.e)]
          IN IF last.t = "dict" THEN Get(last, "role") ELSE None
     ELSE None

\* Line 79: rec.get("event") or rec.get("type") or ""
EventOf(rec) == Or(Or(Get(rec, "event"), Get(rec, "type")), Str(<<>>))

\* Lines 79-84
ClassifyEvent(rec) ==
  LET e == EventOf(rec)
  IN IF e.t # "str" THEN Raise("AttributeError")
     ELSE LET ev == Lower(e.s)
          IN IF Contains(ev, S_user) THEN Str(S_user)
             ELSE IF Contains(ev, S_assistant) \/ Contains(ev, S_completion)
                  THEN Str(S_assistant)
             ELSE Str(S_unknown)

classify_role(rec) ==
  IF rec.t # "dict" THEN Raise("AttributeError")
  ELSE IF IsRole(Get(rec, "role")) THEN Get(rec, "role")
  ELSE IF IsRole(LastMessageRole(rec)) THEN LastMessageRole(rec)
  ELSE IF Has(rec, "prompt") /\ (Has(rec, "completion") \/ Has(rec, "response"))
       THEN Str(S_assistant)
  ELSE IF Has(rec, "text")
          /\ ~(Has(rec, "response") \/ Has(rec, "completion") \/ Has(rec, "choices"))
       THEN Str(S_user)
  ELSE IF Has(rec, "response") \/ Has(rec, "completion") \/ Has(rec, "choices")
       THEN Str(S_assistant)
  ELSE ClassifyEvent(rec)

----------------------------------------------------------------------------
\* Inputs of classify_role

RoleTable == << Absent, Str(S_user), Str(S_assistant), Str(S_system), None, IntV(1) >>
MessagesTable ==
  << Absent, List(<<>>), List(<<Dict("role" :> Str(S_user))>>),
     List(<<Dict("role" :> Str(S_assistant)), Dict("role" :> Str(S_system))>>),
     List(<<Dict("role" :> Str(S_user)), Dict("role" :> Str(S_assistant))>>),
     List(<<Str(S_hi)>>), Str(S_hi) >>
PresenceTable == << Absent, Str(S_hi) >>
ChoicesTable == << Absent, List(<<>>) >>
EventTable ==
  << Absent, Str(S_USER), Str(S_tool), Str(<<>>), Str(S_Assist), None, IntV(5) >>
TypeTable == << Absent, Str(S_user), Str(S_cmpl), Str(S_tool), Str(S_assistant) >>

RoleRec(r, m, p, c, rs, ch, tx, e, ty) ==
  Dict(Field("role", RoleTable[r]) @@ Field("messages", MessagesTable[m])
       @@ Field("prompt", PresenceTable[p]) @@ Field("completion", PresenceTable[c])
       @@ Field("response", PresenceTable[rs]) @@ Field("choices", ChoicesTable[ch])
       @@ Field("text", PresenceTable[tx]) @@ Field("event", EventTable[e])
       @@ Field("type", TypeTable[ty]))

InitRole ==
  /\ pc = "call"
  /\ out = None
  /\ PipeIdle
  /\ mtime = IntV(0)
  /\ \E r \in DOMAIN RoleTable, m \in DOMAIN MessagesTable, p \in DOMAIN PresenceTable,
        c \in DOMAIN PresenceTable, rs \in DOMAIN PresenceTable, ch \in DOMAIN ChoicesTable,
        tx \in DOMAIN PresenceTable, e \in DOMAIN EventTable, ty \in DOMAIN TypeTable :
       cur = RoleRec(r, m, p, c, rs, ch, tx, e, ty)

CallClassifyRole ==
  /\ pc = "call"
  /\ out' = classify_role(cur)
  /\ pc' = "ret"
  /\ UNCHANGED <<cur, mtime, pipeVars>>

SpecRole == InitRole /\ [][CallClassifyRole]_vars

\* The cascade as the claim words it; rule 6 looks at the event field and at
\* the type field.
StrFieldHas(rec, k, sub) == Get(rec, k).t = "str" /\ Contains(Lower(Get(rec, k).s), sub)
EitherFieldHas(rec, sub) == StrFieldHas(rec, "event", sub) \/ StrFieldHas(rec, "type", sub)
CascadeRole(rec) ==
  IF IsRole(Get(rec, "role")) THEN Get(rec, "role").s
  ELSE IF IsRole(LastMessageRole(rec)) THEN LastMessageRole(rec).s
  ELSE IF Has(rec, "prompt") /\ (Has(rec, "completion") \/ Has(rec, "response"))
       THEN S_assistant
  ELSE IF Has(rec, "text")
          /\ ~(Has(rec, "response") \/ Has(rec, "completion") \/ Has(rec, "choices"))
       THEN S_user
  ELSE IF Has(rec, "response") \/ Has(rec, "completion") \/ Has(rec, "choices")
       THEN S_assistant
  ELSE IF EitherFieldHas(rec, S_user) THEN S_user
  ELSE IF EitherFieldHas(rec, S_assistant) \/ EitherFieldHas(rec, S_completion)
       THEN S_assistant
  ELSE S_unknown

\* C2: classify_role returns what the first matching rule of the seven-rule
\* cascade gives, rule 6 matching when the event field or the type field
\* contains (case-insensitively) user, or assistant / completion.
C2_FirstMatchCascade ==
  (pc = "ret" /\ out.t = "str") => out.s = CascadeRole(cur)

----------------------------------------------------------------------------
\* Dates and times.  An instant (an aware datetime) is kept as its whole
\* epoch second, [t |-> "datetime", sec]; a date is <<year, month, day>>.

DigitChars == <<"0","1","2","3","4","5","6","7","8","9">>
IsDigit(c) == \E i \in 1..10 : DigitChars[i] = c
DigitVal(c) == (CHOOSE i \in 1..10 : DigitChars[i] = c) - 1
AllDigits(s, idx) == \A i \in idx : IsDigit(s[i])
Num2(s, i) == 10 * DigitVal(s[i]) + DigitVal(s[i + 1])
Num4(s, i) == 100 * Num2(s, i) + Num2(s, i + 2)

IsLeap(y) == (y % 4 = 0 /\ y % 100 # 0) \/ y % 400 = 0
DaysInMonth(y, m) ==
  IF m = 2 THEN (IF IsLeap(y) THEN 29 ELSE 28)
  ELSE IF m \in {4, 6, 9, 11} THEN 30 ELSE 31
ValidDate(y, m, d) == y >= 1 /\ m \in 1..12 /\ d >= 1 /\ d <= DaysInMonth(y, m)
ValidTime(h, mi, sec) == h <= 23 /\ mi <= 59 /\ sec <= 59

\* Days from 1970-01-01 to the proleptic Gregorian date y-m-d, and back.
DaysFromCivil(y, m, d) ==
  LET yy == IF m <= 2 THEN y - 1 ELSE y
      era == yy \div 400
      yoe == yy - era * 400
      mp == IF m > 2 THEN m - 3 ELSE m + 9
      doy == (153 * mp + 2) \div 5 + d - 1
      doe == yoe * 365 + yoe \div 4 - yoe \div 100 + doy
  IN era * 146097 + doe - 719468

CivilFromDays(z) ==
  LET zz == z + 719468
      era == zz \div 146097
      doe == zz - era * 146097
      yoe == (doe - doe \div 1460 + doe \div 36524 - doe \div 146096) \div 365
      doy == doe - (365 * yoe + yoe \div 4 - yoe \div 100)
      mp == (5 * doy + 2) \div 153
      d == doy - (153 * mp + 2) \div 5 + 1
      m == IF mp < 10 THEN mp + 3 ELSE mp - 9
      y == yoe + era * 400
  IN << IF m <= 2 THEN y + 1 ELSE y, m, d >>

Epoch(y, m, d, h, mi, sec) ==
  DaysFromCivil(y, m, d) * 86400 + h * 3600 + mi * 60 + sec

Datetime(sec) == [t |-> "datetime", sec |-> sec]

\* datetime.fromtimestamp(float(v), tz=timezone.utc) for a number v
fromtimestamp(v) ==
  CASE v.t = "bool" -> Datetime(IF v.b THEN 1 ELSE 0)
    [] v.t = "int" -> Datetime(v.n)
    [] v.t = "float" -> Datetime(v.h \div 2)
    [] v.t = "inf" -> Raise("OverflowError")

\* v.replace("Z", "+00:00")
RECURSIVE ReplaceZ(_)
ReplaceZ(s) ==
  IF Len(s) = 0 THEN s
  ELSE (IF Head(s) = "Z" THEN <<"+","0","0",":","0","0">> ELSE <<Head(s)>>)
       \o ReplaceZ(Tail(s))

\* The date and the time of day at fixed places of s, checked as the parsers do.
DateAt(s) ==
  AllDigits(s, {1, 2, 3, 4, 6, 7, 9, 10}) /\ s[5] = "-" /\ s[8] = "-"
  /\ ValidDate(Num4(s, 1), Num2(s, 6), Num2(s, 9))
TimeAt(s, i) ==
  AllDigits(s, {i, i + 1, i + 3, i + 4, i + 6, i + 7}) /\ s[i + 2] = ":" /\ s[i + 5] = ":"
  /\ ValidTime(Num2(s, i), Num2(s, i + 3), Num2(s, i + 6))
OffsetAt(s, i) ==
  s[i] \in {"+", "-"} /\ AllDigits(s, {i + 1, i + 2, i + 4, i + 5}) /\ s[i + 3] = ":"
  /\ Num2(s, i + 1) <= 23 /\ Num2(s, i + 4) <= 59
OffsetSeconds(s, i) ==
  (IF s[i] = "-" THEN -1 ELSE 1) * (Num2(s, i + 1) * 3600 + Num2(s, i + 4) * 60)

\* Lines 50-53: datetime.fromisoformat(s), a naive result taken as UTC, the
\* result converted to UTC.  The forms modelled are YYYY-MM-DD,
\* YYYY-MM-DD?HH:MM:SS and YYYY-MM-DD?HH:MM:SS+HH:MM (? any one character);
\* any other string is a ValueError.
fromisoformat(s) ==
  IF Len(s) = 10 /\ DateAt(s)
  THEN Datetime(Epoch(Num4(s, 1), Num2(s, 6), Num2(s, 9), 0, 0, 0))
  ELSE IF Len(s) = 19 /\ DateAt(s) /\ TimeAt(s, 12)
  THEN Datetime(Epoch(Num4(s, 1), Num2(s, 6), Num2(s, 9),
                      Num2(s, 12), Num2(s, 15), Num2(s, 18)))
  ELSE IF Len(s) = 25 /\ DateAt(s) /\ TimeAt(s, 12) /\ OffsetAt(s, 20)
  THEN Datetime(Epoch(Num4(s, 1), Num2(s, 6), Num2(s, 9),
                      Num2(s, 12), Num2(s, 15), Num2(s, 18)) - OffsetSeconds(s, 20))
  ELSE Raise("ValueError")

MonthNames == << <<"J","a","n">>, <<"F","e","b">>, <<"M","a","r">>, <<"A","p","r">>,
                 <<"M","a","y">>, <<"J","u","n">>, <<"J","u","l">>, <<"A","u","g">>,
                 <<"S","e","p">>, <<"O","c","t">>, <<"N","o","v">>, <<"D","e","c">> >>
DayNames == { <<"M","o","n">>, <<"T","u","e">>, <<"W","e","d">>, <<"T","h","u">>,
              <<"F","r","i">>, <<"S","a","t">>, <<"S","u","n">> }
ZoneNames == { <<"G","M","T">>, <<"U","T","C">> }

\* Line 57: datetime.strptime(v, fmt).replace(tzinfo=timezone.utc) for the
\* three formats of line 55, on zero-padded fields.
strptime(s, fmt) ==
  CASE fmt = 1 ->  \* %Y-%m-%dT%H:%M:%S.%fZ
         IF Len(s) >= 22 /\ Len(s) <= 27 /\ DateAt(s) /\ s[11] = "T" /\ TimeAt(s, 12)
            /\ s[20] = "." /\ AllDigits(s, 21..(Len(s) - 1)) /\ s[Len(s)] = "Z"
         THEN Datetime(Epoch(Num4(s, 1), Num2(s, 6), Num2(s, 9),
                             Num2(s, 12), Num2(s, 15), Num2(s, 18)))
         ELSE Raise("ValueError")
    [] fmt = 2 ->  \* %Y-%m-%d %H:%M:%S
         IF Len(s) = 19 /\ DateAt(s) /\ s[11] = " " /\ TimeAt(s, 12)
         THEN Datetime(Epoch(Num4(s, 1), Num2(s, 6), Num2(s, 9),
                             Num2(s, 12), Num2(s, 15), Num2(s, 18)))
         ELSE Raise("ValueError")
    [] fmt = 3 ->  \* %a, %d %b %Y %H:%M:%S %Z
         IF Len(s) = 29 /\ SubSeq(s, 1, 3) \in DayNames /\ SubSeq(s, 4, 5) = <<",", " ">>
            /\ AllDigits(s, {6, 7, 13, 14, 15, 16}) /\ s[8] = " " /\ s[12] = " "
            /\ (\E m \in 1..12 : MonthNames[m] = SubSeq(s, 9, 11))
            /\ s[17] = " " /\ TimeAt(s, 18) /\ s[26] = " " /\ SubSeq(s, 27, 29) \in ZoneNames
            /\ ValidDate(Num4(s, 13), CHOOSE m \in 1..12 : MonthNames[m] = SubSeq(s, 9, 11),
                         Num2(s, 6))
         THEN Datetime(Epoch(Num4(s, 13), CHOOSE m \in 1..12 : MonthNames[m] = SubSeq(s, 9, 11),
                             Num2(s, 6), Num2(s, 18), Num2(s, 21), Num2(s, 24)))
         ELSE Raise("ValueError")

\* Lines 55-59: the first format that parses, or nothing
RECURSIVE StrptimeLoop(_, _)
StrptimeLoop(s, fmt) ==
  IF fmt > 3 THEN Raise("ValueError")
  ELSE IF strptime(s, fmt).t # "raise" THEN strptime(s, fmt)
  ELSE StrptimeLoop(s, fmt + 1)

\* Lines 49-59 for a string v
ParseString(s) ==
  IF fromisoformat(ReplaceZ(s)).t # "raise" THEN fromisoformat(ReplaceZ(s))
  ELSE StrptimeLoop(s, 1)

NumericKeys == <<"ts", "created", "time", "t">>
StringKeys == <<"timestamp", "date", "datetime", "created_at">>

\* Lines 46-59: the loop over the string keys from the i-th on
RECURSIVE StringLoop(_, _, _)
StringLoop(rec, fallback_mtime, i) ==
  IF i > Len(StringKeys) THEN fromtimestamp(fallback_mtime)
  ELSE LET v == Get(rec, StringKeys[i])
       IN IF v.t = "str" /\ ParseString(v.s).t # "raise" THEN ParseString(v.s)
          ELSE StringLoop(rec, fallback_mtime, i + 1)

\* Lines 39-45: the loop over the numeric keys from the i-th on
RECURSIVE NumericLoop(_, _, _)
NumericLoop(rec, fallback_mtime, i) ==
  IF i > Len(NumericKeys) THEN StringLoop(rec, fallback_mtime, 1)
  ELSE LET v == Get(rec, NumericKeys[i])
       IN IF IsNumber(v) /\ fromtimestamp(v).t # "raise" THEN fromtimestamp(v)
          ELSE NumericLoop(rec, fallback_mtime, i + 1)

parse_timestamp(rec, fallback_mtime) ==
  IF rec.t # "dict" THEN Raise("AttributeError")
  ELSE NumericLoop(rec, fallback_mtime, 1)

\* Line 150: ts.astimezone().date(), the local zone tz seconds east of UTC
LocalDay(ts, tz) == CivilFromDays((ts.sec + tz) \div 86400)

\* date.isoformat()
Pad2(n) == << DigitChars[(n \div 10) + 1], DigitChars[(n % 10) + 1] >>
isoformat(date) ==
  Pad2(date[1] \div 100) \o Pad2(date[1] % 100) \o <<"-">> \o Pad2(date[2])
  \o <<"-">> \o Pad2(date[3])

\* a < b for dates
DateLess(a, b) ==
  \/ a[1] < b[1]
  \/ a[1] = b[1] /\ a[2] < b[2]
  \/ a[1] = b[1] /\ a[2] = b[2] /\ a[3] < b[3]

S_isoZ == <<"2","0","2","3","-","1","1","-","1","5","T","2","3",":","3","0",":","0","0","Z">>
S_isoDate == <<"2","0","2","3","-","1","1","-","1","3">>
S_isoSpace == <<"2","0","2","3","-","1","1","-","1","5"," ","2","3",":","3","0",":","0","0">>
S_isoOffset == <<"2","0","2","3","-","1","1","-","1","4","T","0","3",":","0","4",":","0","5","+","0","9",":","0","0">>
S_rfc == <<"T","u","e",","," ","1","4"," ","N","o","v"," ","2","0","2","3"," ","0","0",":","0","0",":","0","0"," ","G","M","T">>
S_yesterday == <<"y","e","s","t","e","r","d","a","y">>
S_isoFrac == <<"2","0","2","3","-","1","1","-","1","4","T","0","3",":","0","4",":","0","5",".","5","Z">>

----------------------------------------------------------------------------
\* Inputs of parse_timestamp

TsTable ==
  << Absent, IntV(1700000000), Bool(TRUE), Float(172801), Inf, Str(S_num), None >>
CreatedTable == << Absent, IntV(1700000050) >>
TimeTable == << Absent, IntV(0) >>
TTable == << Absent, Float(-1) >>
TimestampTable == << Absent, Str(S_isoZ), Str(S_yesterday), IntV(5), Str(S_isoFrac) >>
DateTable == << Absent, Str(S_isoDate), Bool(FALSE) >>
DatetimeTable == << Absent, Str(S_rfc), Str(S_isoOffset) >>
CreatedAtTable == << Absent, Str(S_isoSpace), Str(<<>>) >>
MtimeTable == << IntV(1700100000), Float(1) >>

TsRec(a, b, c, d, e, f, g, h) ==
  Dict(Field("ts", TsTable[a]) @@ Field("created", CreatedTable[b])
       @@ Field("time", TimeTable[c]) @@ Field("t", TTable[d])
       @@ Field("timestamp", TimestampTable[e]) @@ Field("date", DateTable[f])
       @@ Field("datetime", DatetimeTable[g]) @@ Field("created_at", CreatedAtTable[h]))

InitTs ==
  /\ pc = "call"
  /\ out = None
  /\ PipeIdle
  /\ \E m \in DOMAIN MtimeTable : mtime = MtimeTable[m]
  /\ \E a \in DOMAIN TsTable, b \in DOMAIN CreatedTable, c \in DOMAIN TimeTable,
        d \in DOMAIN TTable, e \in DOMAIN TimestampTable, f \in DOMAIN DateTable,
        g \in DOMAIN DatetimeTable, h \in DOMAIN CreatedAtTable :
       cur = TsRec(a, b, c, d, e, f, g, h)

CallParseTimestamp ==
  /\ pc = "call"
  /\ out' = parse_timestamp(cur, mtime)
  /\ pc' = "ret"
  /\ UNCHANGED <<cur, mtime, pipeVars>>

SpecTs == InitTs /\ [][CallParseTimestamp]_vars

\* The resolution order as the claim words it: step 1 takes a JSON number (a
\* JSON boolean is not one), step 2 a string, then the modification time; a
\* candidate of another kind, or one whose conversion fails, is passed over.
IsJsonNumber(v) == v.t \in {"int", "float", "inf"}
RECURSIVE ResolveString(_, _, _)
ResolveString(rec, fallback_mtime, i) ==
  IF i > Len(StringKeys) THEN fromtimestamp(fallback_mtime)
  ELSE LET v == Get(rec, StringKeys[i])
       IN IF v.t = "str" /\ ParseString(v.s).t # "raise" THEN ParseString(v.s)
          ELSE ResolveString(rec, fallback_mtime, i + 1)
RECURSIVE ResolveNumeric(_, _, _)
ResolveNumeric(rec, fallback_mtime, i) ==
  IF i > Len(NumericKeys) THEN ResolveString(rec, fallback_mtime, 1)
  ELSE LET v == Get(rec, NumericKeys[i])
       IN IF IsJsonNumber(v) /\ fromtimestamp(v).t # "raise" THEN fromtimestamp(v)
          ELSE ResolveNumeric(rec, fallback_mtime, i + 1)

\* C8: parse_timestamp returns the value of the first candidate that succeeds
\* in the resolution order, a candidate of the wrong kind for its step (a
\* boolean among the numeric fields included) being ignored.
C8_ResolutionOrder ==
  pc = "ret" => out = ResolveNumeric(cur, mtime, 1)

----------------------------------------------------------------------------
\* File discovery (lines 110-130).  A path is its directory below the root,
\* its stem and its suffix; a directory listing is the tuple of its files in
\* the order the operating system returns them.

Path(dir, stem, suffix) == [dir |-> dir, stem |-> stem, suffix |-> suffix]

\* Line 116
Patterns == << [stem |-> "history", suffix |-> ".jsonl"], [stem |-> "history", suffix |-> ".json"],
               [stem |-> "*", suffix |-> ".jsonl"], [stem |-> "*", suffix |-> ".json"] >>
\* Line 119
SubDirs == << "sessions", "log", "logs" >>

Matches(p, pat) == p.suffix = pat.suffix /\ (pat.stem = "*" \/ p.stem = pat.stem)

\* root.glob(pat), d.rglob(pat): the matching files in listing order
Glob(listing, pat) == SelectSeq(listing, LAMBDA p : Matches(p, pat))

\* Lines 116-118, from the i-th pattern on
RECURSIVE RootCandidates(_, _)
RootCandidates(tree, i) ==
  IF i > Len(Patterns) THEN <<>>
  ELSE Glob(tree.root, Patterns[i]) \o RootCandidates(tree, i + 1)

\* Lines 119-123, from the i-th subdirectory on
RECURSIVE SubCandidates(_, _)
SubCandidates(tree, i) ==
  IF i > Len(SubDirs) THEN <<>>
  ELSE (IF SubDirs[i] \in DOMAIN tree.subs
        THEN Glob(tree.subs[SubDirs[i]], Patterns[3]) \o Glob(tree.subs[SubDirs[i]], Patterns[4])
        ELSE <<>>)
       \o SubCandidates(tree, i + 1)

Discovered(tree) == RootCandidates(tree, 1) \o SubCandidates(tree, 1)

\* Lines 125-130: files after the loop has taken the candidates from the i-th
\* on, files and seen holding the same paths
RECURSIVE DedupLoop(_, _, _)
DedupLoop(cands, i, acc) ==
  IF i > Len(cands) THEN acc
  ELSE IF \E j \in 1..Len(acc) : acc[j] = cands[i] THEN DedupLoop(cands, i + 1, acc)
  ELSE DedupLoop(cands, i + 1, Append(acc, cands[i]))

\* A faulty variant: line 128 forgotten, every candidate kept
Deduplicated_keepAll(cands) == cands

Deduplicated(cands) == DedupLoop(cands, 1, <<>>)

----------------------------------------------------------------------------
\* Record extraction (lines 7-36).  A line of a .jsonl file, and the text of
\* a .json file, is [k |-> "blank"] (empty), [k |-> "space"] (white space
\* only), [k |-> "garbage"] (not JSON) or [k |-> "json", v] (the text of the
\* JSON value v).

Text(v) == [k |-> "json", v |-> v]

\* line.strip()
strip(line) == IF line.k = "space" THEN [k |-> "blank"] ELSE line

\* json.loads(line)
json_loads(line) == IF line.k = "json" THEN line.v ELSE Raise("JSONDecodeError")

\* A faulty variant: the except clause of line 17 returns instead of continuing
JsonlStep_returnOnError(line) ==
  IF strip(line).k = "blank" THEN [yield |-> FALSE, stop |-> FALSE]
  ELSE IF json_loads(strip(line)).t = "raise" THEN [yield |-> FALSE, stop |-> TRUE]
  ELSE [yield |-> TRUE, stop |-> FALSE, rec |-> json_loads(strip(line))]

\* Lines 12-18, one turn of the loop: what the line makes the generator do
JsonlStep(line) ==
  IF strip(line).k = "blank" THEN [yield |-> FALSE, stop |-> FALSE]
  ELSE IF json_loads(strip(line)).t = "raise" THEN [yield |-> FALSE, stop |-> FALSE]
  ELSE [yield |-> TRUE, stop |-> FALSE, rec |-> json_loads(strip(line))]

\* Lines 23-25 and 30-32: the dicts of a list
DictsOf(e) == SelectSeq(e, LAMBDA obj : obj.t = "dict")

ContainerKeys == << "records", "events", "history", "lines", "items" >>
MarkerKeys == { "text", "prompt", "response", "completion", "usage", "created", "ts",
                "timestamp", "choices", "messages" }

\* Lines 27-32, from the i-th key on
RECURSIVE NestedRecords(_, _)
NestedRecords(doc, i) ==
  IF i > Len(ContainerKeys) THEN <<>>
  ELSE (IF Get(doc, ContainerKeys[i]).t = "list" THEN DictsOf(Get(doc, ContainerKeys[i]).e)
        ELSE <<>>)
       \o NestedRecords(doc, i + 1)

\* Lines 20-34: every record a .json file of this text yields, in order
JsonRecords(text) ==
  LET doc == json_loads(text)
  IN IF doc.t = "raise" THEN <<>>
     ELSE IF doc.t = "list" THEN DictsOf(doc.e)
     ELSE IF doc.t = "dict"
          THEN NestedRecords(doc, 1)
               \o (IF \E k \in MarkerKeys : Has(doc, k) THEN <<doc>> ELSE <<>>)
     ELSE <<>>

----------------------------------------------------------------------------
\* Aggregation (lines 132-164)

\* Line 140: datetime.strptime(s, "%Y-%m-%d").date(), on zero-padded fields
parse_date(s) ==
  IF Len(s) = 10 /\ DateAt(s) THEN [t |-> "date", d |-> <<Num4(s, 1), Num2(s, 6), Num2(s, 9)>>]
  ELSE Raise("ValueError")

\* Lines 143-144: parse_date(arg) if arg else None
DateArg(arg) == IF Truthy(arg) THEN parse_date(arg.s) ELSE None

\* A faulty variant: the check against --until (lines 153-154) left out
Skipped_sinceOnly(local_day, since_date, until_date) ==
  since_date.t = "date" /\ DateLess(local_day, since_date.d)

\* Lines 151-154: the record is passed over
Skipped(local_day, since_date, until_date) ==
  \/ since_date.t = "date" /\ DateLess(local_day, since_date.d)
  \/ until_date.t = "date" /\ DateLess(until_date.d, local_day)

\* Lines 132-138
ZeroBucket ==
  [user_msgs |-> 0, assistant_msgs |-> 0, prompt_tokens |-> 0, completion_tokens |-> 0,
   total_tokens |-> 0]

\* daily[key] of the defaultdict
Bucket(dl, key) == IF key \in DOMAIN dl THEN dl[key] ELSE ZeroBucket

\* Lines 157-160
CountMessage(dl, key, role) ==
  IF role.s = S_user
  THEN (key :> [Bucket(dl, key) EXCEPT !.user_msgs = @ + 1]) @@ dl
  ELSE IF role.s = S_assistant
  THEN (key :> [Bucket(dl, key) EXCEPT !.assistant_msgs = @ + 1]) @@ dl
  ELSE dl

\* Lines 162-164
AddUsage(dl, key, u) ==
  (key :> [Bucket(dl, key) EXCEPT !.prompt_tokens = @ + u.pt,
                                  !.completion_tokens = @ + u.ct,
                                  !.total_tokens = @ + u.tt]) @@ dl

\* Lines 149-164 for one record: the exception that ends the run, if any, and
\* daily as the body leaves it.
Interpret(rec, fallback_mtime, a, dl) ==
  LET ts == parse_timestamp(rec, fallback_mtime)
  IN IF ts.t = "raise" THEN [exc |-> ts, daily |-> dl]
     ELSE IF Skipped(LocalDay(ts, a.tz), a.since_date, a.until_date)
     THEN [exc |-> None, daily |-> dl]
     ELSE LET key == isoformat(LocalDay(ts, a.tz))
              role == classify_role(rec)
          IN IF role.t = "raise" THEN [exc |-> role, daily |-> dl]
             ELSE LET usage == extract_usage(rec)
                  IN IF usage.t = "raise"
                     THEN [exc |-> usage, daily |-> CountMessage(dl, key, role)]
                     ELSE [exc |-> None,
                           daily |-> AddUsage(CountMessage(dl, key, role), key, usage)]

----------------------------------------------------------------------------
\* Report (lines 166-177)

\* ord(c) for the characters of an ISO date
CharCode(c) == IF c = "-" THEN 45 ELSE 48 + DigitVal(c)

\* a < b for strings
RECURSIVE StrLess(_, _)
StrLess(a, b) ==
  IF Len(b) = 0 THEN FALSE
  ELSE IF Len(a) = 0 THEN TRUE
  ELSE IF Head(a) = Head(b) THEN StrLess(Tail(a), Tail(b))
  ELSE CharCode(Head(a)) < CharCode(Head(b))

\* sorted(keys)
RECURSIVE sorted(_)
sorted(keys) ==
  IF keys = {} THEN <<>>
  ELSE LET m == CHOOSE x \in keys : \A y \in keys \ {x} : StrLess(x, y)
       IN <<m>> \o sorted(keys \ {m})

\* Lines 168-170
BuildRows(dl) ==
  LET days == sorted(DOMAIN dl)
  IN [i \in 1..Len(days) |->
        [day |-> days[i], user_msgs |-> dl[days[i]].user_msgs,
         assistant_msgs |-> dl[days[i]].assistant_msgs,
         prompt_tokens |-> dl[days[i]].prompt_tokens,
         completion_tokens |-> dl[days[i]].completion_tokens,
         total_tokens |-> dl[days[i]].total_tokens]]

\* Lines 167-172: total after the days from the i-th on are added to acc
RECURSIVE TotalLoop(_, _, _, _)
TotalLoop(dl, days, i, acc) ==
  IF i > Len(days) THEN acc
  ELSE TotalLoop(dl, days, i + 1,
                 [user_msgs |-> acc.user_msgs + dl[days[i]].user_msgs,
                  assistant_msgs |-> acc.assistant_msgs + dl[days[i]].assistant_msgs,
                  prompt_tokens |-> acc.prompt_tokens + dl[days[i]].prompt_tokens,
                  completion_tokens |-> acc.completion_tokens + dl[days[i]].completion_tokens,
                  total_tokens |-> acc.total_tokens + dl[days[i]].total_tokens])

\* A faulty variant: the first day never added to total
BuildTotal_skipFirst(dl) == TotalLoop(dl, sorted(DOMAIN dl), 2, ZeroBucket)

BuildTotal(dl) == TotalLoop(dl, sorted(DOMAIN dl), 1, ZeroBucket)

\* str(n)
RECURSIVE Digits(_)
Digits(n) == IF n < 10 THEN <<DigitChars[n + 1]>> ELSE Digits(n \div 10) \o <<DigitChars[(n % 10) + 1]>>
str(n) == IF n < 0 THEN <<"-">> \o Digits(-n) ELSE Digits(n)

Headers == << <<"D","a","t","e">>, <<"U","s","e","r">>, <<"A","s","s","i","s","t","a","n","t">>,
              <<"P","r","o","m","p","t">>, <<"C","o","m","p","l","e","t","i","o","n">>,
              <<"T","o","t","a","l">> >>
S_Sum == <<"S","u","m">>

Cells(first, r) ==
  << first, str(r.user_msgs), str(r.assistant_msgs), str(r.prompt_tokens),
     str(r.completion_tokens), str(r.total_tokens) >>

\* Lines 175-177
BuildData(rs, tot) ==
  <<Headers>> \o [i \in 1..Len(rs) |-> Cells(rs[i].day, rs[i])]
  \o (IF Len(rs) > 0 THEN <<Cells(S_Sum, tot)>> ELSE <<>>)

----------------------------------------------------------------------------
\* The run

MaxReads == 3

R_user ==
  Dict(("role" :> Str(S_user)) @@ ("ts" :> IntV(1700000000))
       @@ ("usage" :> Dict("prompt_tokens" :> IntV(10))))
R_assistant ==
  Dict(("role" :> Str(S_assistant)) @@ ("ts" :> IntV(1700000050))
       @@ ("usage" :> Dict(("completion_tokens" :> IntV(20)) @@ ("prompt_tokens" :> IntV(5)))))
R_text == Dict(("text" :> Str(S_hi)) @@ ("timestamp" :> Str(S_isoZ)))
R_negative ==
  Dict(("type" :> Str(S_cmpl)) @@ ("date" :> Str(S_isoDate))
       @@ ("usage" :> Dict(("prompt_tokens" :> IntV(-5)) @@ ("total_tokens" :> IntV(7)))))
R_meta == Dict(("role" :> Str(S_user)) @@ ("meta" :> IntV(5)))
R_event == Dict(("event" :> IntV(5)) @@ ("ts" :> IntV(1700000000)))

LineTable ==
  << [k |-> "blank"], [k |-> "space"], [k |-> "garbage"], Text(IntV(5)), Text(R_user),
     Text(R_assistant), Text(R_text), Text(R_negative), Text(R_meta), Text(R_event) >>

\* The texts of a .json file; the first is the empty file.
DocTable ==
  << [k |-> "blank"],
     Text(List(<<R_user, IntV(5), R_assistant>>)),
     Text(Dict(("records" :> List(<<R_text, Str(S_hi)>>)) @@ ("items" :> IntV(5))
               @@ ("ts" :> IntV(1700000000)) @@ ("usage" :> Dict("total_tokens" :> IntV(3))))),
     Text(Dict("lines" :> List(<<List(<<IntV(1)>>)>>))),
     Text(IntV(5)) >>

F_history == Path(<<>>, "history", ".jsonl")
F_historyJson == Path(<<>>, "history", ".json")
F_b == Path(<<>>, "b", ".json")
F_notes == Path(<<>>, "notes", ".txt")
F_s1 == Path(<<"sessions">>, "s1", ".jsonl")
F_y == Path(<<"logs", "x">>, "y", ".json")
F_z == Path(<<"logs">>, "z", ".jsonl")

FsTable ==
  << [exists |-> FALSE, mtime |-> IntV(0), root |-> <<>>, subs |-> <<>>],
     [exists |-> TRUE, mtime |-> IntV(0), root |-> <<>>, subs |-> ("log" :> <<>>)],
     [exists |-> TRUE, mtime |-> IntV(1700100000), root |-> <<F_history, F_notes>>,
      subs |-> ("sessions" :> <<F_s1>>)],
     [exists |-> TRUE, mtime |-> IntV(1700100000), root |-> <<F_b, F_history, F_historyJson>>,
      subs |-> ("logs" :> <<F_y, F_z>>)] >>

S_d1113 == <<"2","0","2","3","-","1","1","-","1","3">>
S_d1114 == <<"2","0","2","3","-","1","1","-","1","4">>
S_d1115 == <<"2","0","2","3","-","1","1","-","1","5">>

\* --since, --until, and the offset of the local zone in seconds
RunTable ==
  << [since |-> None, until |-> None, tz |-> 0],
     [since |-> Str(S_d1114), until |-> Str(S_d1115), tz |-> 32400],
     [since |-> Str(S_d1115), until |-> None, tz |-> -18000],
     [since |-> Str(<<>>), until |-> Str(S_d1113), tz |-> 0],
     [since |-> Str(S_yesterday), until |-> None, tz |-> 0] >>

Init ==
  /\ pc = "start"
  /\ cur = None
  /\ out = None
  /\ mtime = IntV(0)
  /\ \E i \in DOMAIN FsTable : fs = FsTable[i]
  /\ \E i \in DOMAIN RunTable :
       args = [since |-> RunTable[i].since, until |-> RunTable[i].until, tz |-> RunTable[i].tz,
               since_date |-> None, until_date |-> None]
  /\ candidates = <<>> /\ files = <<>> /\ fi = 0
  /\ lines = <<>> /\ yielded = <<>> /\ pending = <<>> /\ eof = FALSE /\ reads = 0
  /\ daily = <<>> /\ rows = <<>> /\ total = ZeroBucket /\ data = <<>>
  /\ opened = <<>> /\ log = <<>>

\* Lines 110-113
CheckRoot ==
  /\ pc = "start"
  /\ pc' = IF fs.exists THEN "discover" ELSE "exit1"
  /\ UNCHANGED <<cur, out, mtime, pipeVars>>

\* Lines 115-123
Discover ==
  /\ pc = "discover"
  /\ candidates' = Discovered(fs)
  /\ pc' = "dedup"
  /\ UNCHANGED <<cur, out, mtime, fs, args, files, fi, lines, yielded, pending, eof, reads,
                 daily, rows, total, data, opened, log>>

\* Lines 125-130
Dedup ==
  /\ pc = "dedup"
  /\ files' = Deduplicated(candidates)
  /\ pc' = "args"
  /\ UNCHANGED <<cur, out, mtime, fs, args, candidates, fi, lines, yielded, pending, eof,
                 reads, daily, rows, total, data, opened, log>>

\* Lines 143-144
ParseArgs ==
  /\ pc = "args"
  /\ IF DateArg(args.since).t = "raise"
     THEN pc' = "crashed" /\ out' = DateArg(args.since) /\ UNCHANGED args
     ELSE IF DateArg(args.until).t = "raise"
     THEN pc' = "crashed" /\ out' = DateArg(args.until) /\ UNCHANGED args
     ELSE /\ pc' = "files"
          /\ args' = [args EXCEPT !.since_date = DateArg(args.since),
                                  !.until_date = DateArg(args.until)]
          /\ UNCHANGED out
  /\ UNCHANGED <<cur, mtime, fs, candidates, files, fi, lines, yielded, pending, eof, reads,
                 daily, rows, total, data, opened, log>>

\* Lines 146-148: the next file, its st_mtime, a fresh generator; or the end
\* of the loop
NextFile ==
  /\ pc = "files"
  /\ IF fi < Len(files)
     THEN /\ fi' = fi + 1
          /\ mtime' = fs.mtime
          /\ opened' = Append(opened, files[fi + 1])
          /\ lines' = <<>> /\ yielded' = <<>> /\ pending' = <<>> /\ eof' = FALSE
          /\ pc' = "gen"
     ELSE /\ pc' = "report"
          /\ UNCHANGED <<fi, mtime, opened, lines, yielded, pending, eof>>
  /\ UNCHANGED <<cur, out, fs, args, candidates, files, reads, daily, rows, total, data, log>>

\* Lines 10, 20 and 35-36: the file cannot be opened; the generator returns
OpenFails ==
  /\ pc = "gen" /\ lines = <<>>
  /\ pc' = "files"
  /\ UNCHANGED <<cur, out, mtime, pipeVars>>

\* Lines 11-18: the generator reads one more line of a .jsonl file
ReadLine ==
  /\ pc = "gen" /\ files[fi].suffix = ".jsonl" /\ ~eof /\ reads < MaxReads
  /\ \E i \in DOMAIN LineTable :
       LET step == JsonlStep(LineTable[i])
       IN /\ lines' = Append(lines, LineTable[i])
          /\ IF step.stop THEN pc' = "files" /\ UNCHANGED <<cur, yielded>>
             ELSE IF step.yield
             THEN pc' = "body" /\ cur' = step.rec /\ yielded' = Append(yielded, step.rec)
             ELSE pc' = "gen" /\ UNCHANGED <<cur, yielded>>
  /\ reads' = reads + 1
  /\ UNCHANGED <<out, mtime, fs, args, candidates, files, fi, pending, eof, daily, rows,
                 total, data, opened, log>>

\* Line 11: no line is left; the generator returns
ReadEof ==
  /\ pc = "gen" /\ files[fi].suffix = ".jsonl" /\ ~eof
  /\ eof' = TRUE
  /\ pc' = "files"
  /\ UNCHANGED <<cur, out, mtime, fs, args, candidates, files, fi, lines, yielded, pending,
                 reads, daily, rows, total, data, opened, log>>

\* Lines 20-21: the generator reads and parses a .json file
LoadDocument ==
  /\ pc = "gen" /\ files[fi].suffix = ".json" /\ ~eof
  /\ \E i \in DOMAIN DocTable :
       /\ reads < MaxReads \/ i = 1
       /\ lines' = <<DocTable[i]>>
       /\ pending' = JsonRecords(DocTable[i])
  /\ eof' = TRUE
  /\ reads' = reads + 1
  /\ UNCHANGED <<pc, cur, out, mtime, fs, args, candidates, files, fi, yielded, daily, rows,
                 total, data, opened, log>>

\* Lines 22-34: the generator yields its next record, or returns
YieldNext ==
  /\ pc = "gen" /\ files[fi].suffix = ".json" /\ eof
  /\ IF Len(pending) > 0
     THEN /\ cur' = Head(pending)
          /\ pending' = Tail(pending)
          /\ yielded' = Append(yielded, Head(pending))
          /\ pc' = "body"
     ELSE pc' = "files" /\ UNCHANGED <<cur, pending, yielded>>
  /\ UNCHANGED <<out, mtime, fs, args, candidates, files, fi, lines, eof, reads, daily, rows,
                 total, data, opened, log>>

\* Lines 149-164: the body of the loop for the record yielded; an exception
\* leaves main and ends the run
ProcessRecord ==
  /\ pc = "body"
  /\ LET r == Interpret(cur, mtime, args, daily)
     IN /\ daily' = r.daily
        /\ IF r.exc.t = "raise" THEN pc' = "crashed" /\ out' = r.exc
           ELSE pc' = "gen" /\ UNCHANGED out
  /\ log' = Append(log, fi)
  /\ UNCHANGED <<cur, mtime, fs, args, candidates, files, fi, lines, yielded, pending, eof,
                 reads, rows, total, data, opened>>

\* Lines 166-177
Report ==
  /\ pc = "report"
  /\ rows' = BuildRows(daily)
  /\ total' = BuildTotal(daily)
  /\ data' = BuildData(BuildRows(daily), BuildTotal(daily))
  /\ pc' = "done"
  /\ UNCHANGED <<cur, out, mtime, fs, args, candidates, files, fi, lines, yielded, pending,
                 eof, reads, daily, opened, log>>

Next ==
  \/ CheckRoot \/ Discover \/ Dedup \/ ParseArgs \/ NextFile \/ OpenFails
  \/ ReadLine \/ ReadEof \/ LoadDocument \/ YieldNext \/ ProcessRecord \/ Report

Spec == Init /\ [][Next]_vars

----------------------------------------------------------------------------
\* Properties of the run

CounterNames == { "user_msgs", "assistant_msgs", "prompt_tokens", "completion_tokens",
                  "total_tokens" }

\* The calendar date an ISO key or a --since / --until argument names
DateOfKey(key) == << Num4(key, 1), Num2(key, 6), Num2(key, 9) >>

\* D1 <= date <= D2 for the bounds given on the command line
WithinRange(date) ==
  /\ Truthy(args.since) => ~DateLess(date, DateOfKey(args.since.s))
  /\ Truthy(args.until) => ~DateLess(DateOfKey(args.until.s), date)

\* The local day of a record that main interprets
DayOf(rec) == LocalDay(parse_timestamp(rec, mtime), args.tz)

\* C3: every bucket key and every row date lies in the inclusive range
\* --since .. --until, and a record whose local day lies outside the range
\* leaves the buckets (keys and counters) as they were.
C3_RangeFilter ==
  [][ /\ \A key \in DOMAIN daily' : WithinRange(DateOfKey(key))
      /\ \A i \in DOMAIN rows' : WithinRange(DateOfKey(rows'[i].day))
      /\ (pc = "body" /\ parse_timestamp(cur, mtime).t = "datetime"
          /\ ~WithinRange(DayOf(cur))) => daily' = daily ]_vars

C3_Witness ==
  /\ pc = "gen" /\ Truthy(args.until) /\ Truthy(args.since)
  /\ DOMAIN daily # {}
  /\ \E i \in DOMAIN yielded :
       /\ yielded[i].t = "dict"
       /\ ~WithinRange(DayOf(yielded[i]))
       /\ \E j \in DOMAIN yielded : j > i /\ yielded[j].t = "dict" /\ WithinRange(DayOf(yielded[j]))

RECURSIVE ColumnSum(_, _)
ColumnSum(rs, c) == IF Len(rs) = 0 THEN 0 ELSE rs[1][c] + ColumnSum(Tail(rs), c)

\* C4: in a report with at least one row, each numeric column of the Sum row
\* is the sum of that column over the data rows, and the data rows are the
\* buckets, one row each, in ascending order of day.
C4_SumRow ==
  (pc = "done" /\ Len(rows) > 0) =>
    /\ \A c \in CounterNames : total[c] = ColumnSum(rows, c)
    /\ data[Len(data)] =
         << S_Sum, str(ColumnSum(rows, "user_msgs")), str(ColumnSum(rows, "assistant_msgs")),
            str(ColumnSum(rows, "prompt_tokens")), str(ColumnSum(rows, "completion_tokens")),
            str(ColumnSum(rows, "total_tokens")) >>
    /\ Len(data) = Len(rows) + 2
    /\ Len(rows) = Cardinality(DOMAIN daily)
    /\ \A key \in DOMAIN daily :
         \E i \in DOMAIN rows :
           rows[i].day = key /\ \A c \in CounterNames : rows[i][c] = daily[key][c]
    /\ \A i \in 1..(Len(rows) - 1) :
         DateLess(DateOfKey(rows[i].day), DateOfKey(rows[i + 1].day))

C4_Witness ==
  /\ pc = "done" /\ Len(rows) >= 2
  /\ total.total_tokens > rows[1].total_tokens
  /\ rows[1].total_tokens > 0
  /\ total.user_msgs + total.assistant_msgs >= 2

\* C5: no object-shaped record aborts the run: every exception of timestamp
\* inference, role classification and usage extraction is replaced by a
\* default and the next record is processed.
C5_InterpretationNeverAborts ==
  pc = "crashed" => cur.t # "dict"

\* C6: every record iter_json_records yields, from a .jsonl file as from a
\* .json file, is a JSON object.
C6_YieldsOnlyObjects ==
  \A i \in DOMAIN yielded : yielded[i].t = "dict"

\* The values of the lines that hold a JSON value, in file order
RECURSIVE ParsedLines(_)
ParsedLines(ls) ==
  IF Len(ls) = 0 THEN <<>>
  ELSE (IF Head(ls).k = "json" THEN <<Head(ls).v>> ELSE <<>>) \o ParsedLines(Tail(ls))

\* C7: from a .jsonl file the generator yields exactly the values of the
\* valid non-blank lines read so far, in file order, and nothing for a blank
\* or invalid line; and it returns only at the end of the file (or when the
\* file could not be opened), never at an invalid line.
C7_MalformedLineTolerance ==
  (fi > 0 /\ files[fi].suffix = ".jsonl") =>
    /\ yielded = ParsedLines(lines)
    /\ (pc \in {"files", "report", "done"}) => (eof \/ lines = <<>>)

C7_Witness ==
  /\ fi > 0 /\ files[fi].suffix = ".jsonl" /\ eof
  /\ Len(lines) = 3 /\ Len(yielded) = 2
  /\ lines[1].k = "json" /\ lines[2].k = "garbage" /\ lines[3].k = "json"

\* C9: a counter of a bucket never goes below the value it had (zero for a
\* bucket that did not exist yet).
C9_CountersNeverDecrease ==
  [][ \A key \in DOMAIN daily' :
        \A c \in CounterNames : daily'[key][c] >= Bucket(daily, key)[c] ]_vars

FirstIndex(seq, x) == CHOOSE i \in DOMAIN seq : seq[i] = x /\ \A j \in 1..(i - 1) : seq[j] # x

\* C10: files holds each discovered path once, in the order of first
\* appearance among the candidates; the loop takes them once each in that
\* order, and the records of a file all come before those of the next file.
C10_EachFileOnce ==
  (pc \notin {"start", "exit1", "discover", "dedup"}) =>
    /\ \A i, j \in DOMAIN files : i # j => files[i] # files[j]
    /\ {files[i] : i \in DOMAIN files} = {candidates[i] : i \in DOMAIN candidates}
    /\ \A i, j \in DOMAIN files :
         i < j => FirstIndex(candidates, files[i]) < FirstIndex(candidates, files[j])
    /\ opened = SubSeq(files, 1, fi)
    /\ \A i, j \in DOMAIN opened : i # j => opened[i] # opened[j]
    /\ \A i \in 1..(Len(log) - 1) : log[i] <= log[i + 1]
    /\ (pc \in {"report", "done"}) => fi = Len(files)

C10_Witness ==
  /\ pc = "done"
  /\ Len(candidates) > Len(files)
  /\ \E i \in DOMAIN log : \E j \in DOMAIN log : log[i] < log[j]

====
